---------------------------- MODULE Spec2Model ----------------------------
(***************************************************************************)
(* Contract accounting and access-control engine of snowops-contract:     *)
(* ContractService (service layer) over ContractRepository (PostgreSQL).  *)
(*                                                                         *)
(* The store is the committed content of the tables contracts,            *)
(* contract_usage, trip_usage_log and tickets.  Every request is served   *)
(* by a worker; a request that makes several database round trips is      *)
(* several steps, so that requests of different workers interleave        *)
(* between statements.  Statements inside a transaction write to the      *)
(* worker's pending set and become visible at commit.                      *)
(*                                                                         *)
(* A float64 amount is an integer count of parts of one step of a         *)
(* NUMERIC(n,2) column (Resolution parts to the step); a column holds     *)
(* whole steps, rounding what is stored into it.  The product of a volume *)
(* and a price is kept exact until it is stored.                           *)
(* Timestamps are integers on one clock.  The columns                     *)
(* created_at / updated_at are not represented: contract ids are issued   *)
(* in insertion order, so ORDER BY created_at DESC is descending id.      *)
(***************************************************************************)
EXTENDS Integers, Sequences, FiniteSets, TLC

\* ------------------------------------------------------------------ bounds
MaxTime == 3
MaxContracts == 2
MaxVolume == 2
\* a float64 amount is counted in parts of one step of a NUMERIC(n,2) column
Resolution == 4

\* ------------------------------------------------------------- identities
\* uuid.Nil; also how a NULL contract_id reads
NilUUID == 0
\* a nil pointer is the empty sequence, a set pointer the one-element sequence
NilPtr == <<>>
Ptr(v) == <<v>>
Deref(p) == p[1]

Workers == {"w1", "w2"}
Orgs == {"o1", "o2"}
ContractIDs == 1..MaxContracts
\* a well-formed id that no contract row ever has
MissingContract == MaxContracts + 1
\* tickets are rows of the ticket service; "t0" names no row
TicketIDs == {"t1", "t2"}
MissingTicket == "t0"
TripIDs == {"tr1", "tr2"}
Times == 0..MaxTime

\* ------------------------------------------------------------ model.UserRole
UserRoleAkimatAdmin == "AKIMAT_ADMIN"
UserRoleKguZkhAdmin == "KGU_ZKH_ADMIN"
UserRoleTooAdmin == "TOO_ADMIN"
UserRoleContractorAdmin == "CONTRACTOR_ADMIN"
UserRoleDriver == "DRIVER"

Principals ==
    {[role |-> UserRoleKguZkhAdmin, org |-> o] : o \in Orgs}
    \cup {[role |-> r, org |-> "o1"] :
             r \in {UserRoleContractorAdmin, UserRoleAkimatAdmin,
                    UserRoleTooAdmin, UserRoleDriver}}

IsAkimat(p) == p.role = UserRoleAkimatAdmin
\* a role check that takes oversight for the contract authority
OversightIsAuthority(p) ==
    p.role \in {UserRoleKguZkhAdmin, UserRoleAkimatAdmin}
IsKgu(p) == p.role = UserRoleKguZkhAdmin
IsContractor(p) == p.role = UserRoleContractorAdmin

\* ------------------------------------------------------------ model.WorkType
WorkTypeRoad == "road"
WorkTypeSidewalk == "sidewalk"
WorkTypeYard == "yard"

\* ---------------------------------------------- ContractUIStatus / Result
ContractUIStatusPlanned == "PLANNED"
ContractUIStatusActive == "ACTIVE"
ContractUIStatusExpired == "EXPIRED"
ContractUIStatusArchived == "ARCHIVED"

ContractResultNone == "NONE"
ContractResultSuccess == "SUCCESS"
ContractResultFail == "FAIL"

\* --------------------------------------------------------- service errors
OK == "OK"
ErrNotFound == "NotFound"
ErrPermissionDenied == "PermissionDenied"
ErrInvalidInput == "InvalidInput"
ErrConflict == "Conflict"
\* any other error (storage, cancellation): handleError's default branch
ErrInternal == "Internal"

VARIABLES
    contracts,  \* table contracts: id -> row
    usage,      \* table contract_usage: contract_id -> totals
    log,        \* table trip_usage_log: trip_id -> entry
    tickets,    \* table tickets: id -> contract_id (NilUUID = NULL)
    nextID,     \* the next contract id uuid_generate_v4() hands out
    clock,      \* s.now()
    pc,         \* per worker: the statement its request is at
    loc,        \* per worker: the request's arguments and locals
    resp        \* the response returned by the last step, if it returned one

vars == <<contracts, usage, log, tickets, nextID, clock, pc, loc, resp>>
store == <<contracts, usage, log, tickets, nextID>>

\* ---------------------------------------------------------------- helpers
\* the larger of two numbers
Larger(a, b) == IF a < b THEN b ELSE a
\* math.Min
Min(a, b) == IF a < b THEN a ELSE b

RECURSIVE SumOver(_, _)
\* the sum of f[x] over a finite set S
SumOver(S, f) ==
    IF S = {} THEN 0
    ELSE LET x == CHOOSE y \in S : TRUE IN f[x] + SumOver(S \ {x}, f)

\* a function without the keys in D
Without(f, D) == [x \in (DOMAIN f) \ D |-> f[x]]
\* a function with key k set to v
With(f, k, v) == [x \in (DOMAIN f) \cup {k} |-> IF x = k THEN v ELSE f[x]]

NoPrincipal == [role |-> "none", org |-> "none"]
NoInput == [none |-> TRUE]
NoResp ==
    [op |-> "none", pr |-> NoPrincipal, err |-> "none", in |-> NoInput,
     rows |-> <<>>, wrote |-> FALSE]
\* a response; `wrote` records whether the returning step changed the store
Resp(op, p, err, in, rows, wrote) ==
    [op |-> op, pr |-> p, err |-> err, in |-> in, rows |-> rows,
     wrote |-> wrote]

NoLoc == [pr |-> NoPrincipal, in |-> NoInput, cid |-> NilUUID, price |-> 0]
Idle == "idle"


\* ------------------------------------------------------------ pure functions
\* strings.TrimSpace on a name given as a sequence of characters
IsSpace(ch) == ch = " "
RECURSIVE TrimLeft(_)
TrimLeft(s) ==
    IF s # <<>> /\ IsSpace(Head(s)) THEN TrimLeft(Tail(s)) ELSE s
RECURSIVE TrimRight(_)
TrimRight(s) ==
    IF s # <<>> /\ IsSpace(s[Len(s)]) THEN TrimRight(SubSeq(s, 1, Len(s) - 1))
    ELSE s
TrimSpace(s) == TrimRight(TrimLeft(s))

\* float64 quotient a / b, kept exact as a fraction
Quotient(a, b) == [num |-> a, den |-> b]
ZeroFloat == [num |-> 0, den |-> 1]

\* the float64 amount of n whole column steps
Whole(n) == n * Resolution

\* a float64 amount num / den as a NUMERIC(n,2) column stores it: rounded to
\* the nearest whole step, ties away from zero
NumericQ(q) ==
    LET half == q.den * Resolution
        mag == IF q.num < 0 THEN 0 - q.num ELSE q.num
        steps == (2 * mag + half) \div (2 * half)
    IN IF q.num < 0 THEN 0 - Whole(steps) ELSE Whole(steps)
Numeric2(x) == NumericQ(Quotient(x, 1))

\* the zero value of model.ContractUsage that Scan leaves when no row matches
ZeroUsage == [TotalVolumeM3 |-> 0, TotalCost |-> 0]

\* model.Contract as scanned from a contracts row: relations and derived
\* fields hold their zero values.  `at` records the value s.now() returned
\* to decorateContract.
ScanContract(id) ==
    LET c == contracts[id] IN
    [ID |-> id,
     ContractorID |-> c.contractor_id,
     CreatedByOrgID |-> c.created_by_org,
     Name |-> c.name,
     WorkType |-> c.work_type,
     PricePerM3 |-> c.price_per_m3,
     BudgetTotal |-> c.budget_total,
     MinimalVolumeM3 |-> c.minimal_volume_m3,
     StartAt |-> c.start_at,
     EndAt |-> c.end_at,
     IsActive |-> c.is_active,
     Usage |-> NilPtr,
     UIStatus |-> "",
     Result |-> "",
     PayableAmount |-> 0,
     BudgetExceeded |-> FALSE,
     VolumeProgress |-> ZeroFloat,
     at |-> NilPtr]

\* a status that expires at the end date
ExpiresAtEnd(contract, now) ==
    IF ~contract.IsActive THEN ContractUIStatusArchived
    ELSE IF now < contract.StartAt THEN ContractUIStatusPlanned
    ELSE IF now >= contract.EndAt THEN ContractUIStatusExpired
    ELSE ContractUIStatusActive

\* a status that tests the end date before the active flag
ExpiryBeforeArchive(contract, now) ==
    IF now > contract.EndAt THEN ContractUIStatusExpired
    ELSE IF ~contract.IsActive THEN ContractUIStatusArchived
    ELSE IF now < contract.StartAt THEN ContractUIStatusPlanned
    ELSE ContractUIStatusActive

deriveUIStatus(contract, now) ==
    IF ~contract.IsActive THEN ContractUIStatusArchived
    ELSE IF now < contract.StartAt THEN ContractUIStatusPlanned
    ELSE IF now > contract.EndAt THEN ContractUIStatusExpired
    ELSE ContractUIStatusActive

decorateContract(contract, now) ==
    LET status == deriveUIStatus(contract, now)
        usageVolume ==
            IF contract.Usage # NilPtr
            THEN Deref(contract.Usage).TotalVolumeM3 ELSE 0
        usageCost ==
            IF contract.Usage # NilPtr
            THEN Deref(contract.Usage).TotalCost ELSE 0
    IN [contract EXCEPT
          !.at = Ptr(now),
          !.UIStatus = status,
          !.VolumeProgress =
              IF contract.MinimalVolumeM3 > 0
              THEN Quotient(usageVolume, contract.MinimalVolumeM3)
              ELSE @,
          !.PayableAmount = Min(usageCost, contract.BudgetTotal),
          !.BudgetExceeded =
              IF usageCost > contract.BudgetTotal THEN TRUE ELSE @,
          !.Result =
              CASE status = ContractUIStatusExpired ->
                     IF usageVolume >= contract.MinimalVolumeM3
                     THEN ContractResultSuccess
                     ELSE ContractResultFail
                [] status \in {ContractUIStatusPlanned, ContractUIStatusActive,
                               ContractUIStatusArchived} ->
                     ContractResultNone
                [] OTHER -> @]

\* ------------------------------------------------------ repository reads
\* Scan leaves the destination at its zero value when no row matches and
\* reports no error; GetByID tests contract.ID == uuid.Nil for that reason.
\* a read that never finds the usage row
NoUsageRead(contractID) == ZeroUsage

getUsage(contractID) ==
    IF contractID \in DOMAIN usage
    THEN [TotalVolumeM3 |-> usage[contractID].total_volume_m3,
          TotalCost |-> usage[contractID].total_cost]
    ELSE ZeroUsage

ContractExists(id) == id \in DOMAIN contracts

\* GetByID for an existing id (the caller tests ContractExists first)
GetByID(id, includeUsage) ==
    IF includeUsage
    THEN [ScanContract(id) EXCEPT !.Usage = Ptr(getUsage(id))]
    ELSE ScanContract(id)

\* the WHERE clause ContractRepository.List builds from a filter
FilterMatches(c, filter) ==
    /\ filter.ContractorID # NilPtr =>
           c.contractor_id = Deref(filter.ContractorID)
    /\ filter.CreatedByOrg # NilPtr =>
           c.created_by_org = Deref(filter.CreatedByOrg)
    /\ filter.WorkType # NilPtr => c.work_type = Deref(filter.WorkType)
    /\ filter.OnlyActive => c.is_active
    /\ filter.StartFrom # NilPtr => c.start_at >= Deref(filter.StartFrom)
    /\ filter.StartTo # NilPtr => c.start_at <= Deref(filter.StartTo)
    /\ filter.EndFrom # NilPtr => c.end_at >= Deref(filter.EndFrom)
    /\ filter.EndTo # NilPtr => c.end_at <= Deref(filter.EndTo)
    /\ filter.Status # NilPtr =>
         LET now == filter.Now
             status == Deref(filter.Status)
         IN /\ status = ContractUIStatusPlanned =>
                   c.is_active /\ c.start_at > now
            /\ status = ContractUIStatusActive =>
                   c.is_active /\ c.start_at <= now /\ c.end_at >= now
            /\ status = ContractUIStatusExpired =>
                   c.is_active /\ c.end_at < now
            /\ status = ContractUIStatusArchived => ~c.is_active

RECURSIVE DescendingSeq(_)
\* the ids of S, largest first
DescendingSeq(S) ==
    IF S = {} THEN <<>>
    ELSE LET m == CHOOSE x \in S : \A y \in S : y <= x
         IN <<m>> \o DescendingSeq(S \ {m})

\* ContractRepository.List: the matching rows, most recently created first,
\* each with its usage when filter.IncludeUsage
RepoList(filter) ==
    LET ids == DescendingSeq({id \in DOMAIN contracts :
                                 FilterMatches(contracts[id], filter)})
    IN [i \in 1..Len(ids) |-> GetByID(ids[i], filter.IncludeUsage)]


\* ------------------------------------------------------------------- inputs
\* a well-formed create request, and the requests that differ from a
\* well-formed one in the contractor, the active flag or one faulty field
\* (names are character sequences)
BaseCreateInput ==
    [ContractorID |-> "o1", Name |-> <<" ", "n", " ">>,
     WorkType |-> WorkTypeRoad, PricePerM3 |-> Whole(2),
     BudgetTotal |-> Whole(4), MinimalVolumeM3 |-> Whole(3), StartAt |-> 1, EndAt |-> 2, IsActive |-> NilPtr]

\* the last one names a price of a quarter step
ValidCreateInputs ==
    {BaseCreateInput,
     [BaseCreateInput EXCEPT !.ContractorID = "o2", !.IsActive = Ptr(FALSE),
                             !.WorkType = WorkTypeYard],
     [BaseCreateInput EXCEPT !.PricePerM3 = 1]}

FaultyCreateInputs ==
    {[BaseCreateInput EXCEPT !.Name = <<" ">>],
     [BaseCreateInput EXCEPT !.Name = <<>>],
     [BaseCreateInput EXCEPT !.WorkType = "other"],
     [BaseCreateInput EXCEPT !.PricePerM3 = 0],
     [BaseCreateInput EXCEPT !.BudgetTotal = 0],
     [BaseCreateInput EXCEPT !.MinimalVolumeM3 = 0],
     [BaseCreateInput EXCEPT !.EndAt = 1],
     [BaseCreateInput EXCEPT !.StartAt = 2, !.EndAt = 1]}

CreateInputs == ValidCreateInputs \cup FaultyCreateInputs

\* the sequential specification uses one ticket that exists and one that
\* does not
AssignInputs ==
    [TicketID : {"t1", MissingTicket},
     ContractID : ContractIDs \cup {MissingContract}]

RecordInputs ==
    [TripID : TripIDs, TicketID : {"t1", MissingTicket},
     VolumeM3 : {Whole(v) : v \in 0..MaxVolume} \cup {1}]

DeleteInputs ==
    [ContractID : ContractIDs \cup {MissingContract}, Force : BOOLEAN]

\* requests: a principal and an input
Requests(P, I) == [pr : P, in : I]

KguO1 == [role |-> UserRoleKguZkhAdmin, org |-> "o1"]

\* the requests of the concurrent specification: one contract authority,
\* one well-formed contract, positive volumes, a second ticket that binds
\* to the last contract and records the first trip
WriterCreateRequests == Requests({KguO1}, {BaseCreateInput})
WriterAssignRequests ==
    Requests({KguO1},
             [TicketID : {"t1"}, ContractID : ContractIDs]
             \cup {[TicketID |-> "t2", ContractID |-> MaxContracts]})
WriterRecordRequests ==
    Requests({KguO1},
             [TripID : TripIDs, TicketID : {"t1"},
              VolumeM3 : {Whole(v) : v \in 1..MaxVolume}]
             \cup {[TripID |-> "tr1", TicketID |-> "t2",
                    VolumeM3 |-> Whole(1)]})
WriterDeleteRequests ==
    Requests({KguO1}, [ContractID : {1}, Force : BOOLEAN])

\* the requests of the sequential specification
CreateRequests ==
    Requests(Principals, {BaseCreateInput}) \cup Requests({KguO1}, CreateInputs)
AssignRequests == Requests(Principals, AssignInputs)
RecordRequests == Requests(Principals, RecordInputs)
DeleteRequests == Requests(Principals, DeleteInputs)

\* ------------------------------------------------------------------ initial
EmptyTable == <<>>

Init ==
    /\ contracts = EmptyTable
    /\ usage = EmptyTable
    /\ log = EmptyTable
    /\ tickets = [t \in TicketIDs |-> NilUUID]
    /\ nextID = 1
    /\ clock = 0
    /\ pc = [w \in Workers |-> Idle]
    /\ loc = [w \in Workers |-> NoLoc]
    /\ resp = NoResp

\* the previous call has been answered
Answered == resp = NoResp

\* no request that writes is under way.  Reads are served at such moments:
\* a statement's writes are visible once it (or its transaction) commits,
\* and every store a read could see between two statements of a request is
\* also the store left by that request failing at its next statement
Quiet == \A w \in Workers : pc[w] = Idle

\* the clock advances
Tick ==
    /\ Answered
    /\ clock < MaxTime
    /\ clock' = clock + 1
    /\ resp' = NoResp
    /\ UNCHANGED <<store, pc, loc>>

\* a call that touches no worker returns `r`
Reply(r) == resp' = r

\* a worker returns `r` and is free again
Return(w, r) ==
    /\ pc' = [pc EXCEPT ![w] = Idle]
    /\ loc' = [loc EXCEPT ![w] = NoLoc]
    /\ resp' = r

\* a worker moves on to statement `next` with locals `l`
Goto(w, next, l) ==
    /\ pc' = [pc EXCEPT ![w] = next]
    /\ loc' = [loc EXCEPT ![w] = l]
    /\ resp' = NoResp

\* ------------------------------------------------------------------- Create
CreateInputValid(in) ==
    /\ TrimSpace(in.Name) # <<>>
    /\ in.PricePerM3 > 0
    /\ in.BudgetTotal > 0
    /\ in.MinimalVolumeM3 > 0
    /\ in.EndAt > in.StartAt
    /\ in.WorkType \in {WorkTypeRoad, WorkTypeSidewalk, WorkTypeYard}

\* repository.CreateContractParams as the contracts row the INSERT stores:
\* the amounts go into NUMERIC(n,2) columns
CreateParams(p, in) ==
    [contractor_id |-> in.ContractorID,
     created_by_org |-> p.org,
     name |-> TrimSpace(in.Name),
     work_type |-> in.WorkType,
     price_per_m3 |-> Numeric2(in.PricePerM3),
     budget_total |-> Numeric2(in.BudgetTotal),
     minimal_volume_m3 |-> Numeric2(in.MinimalVolumeM3),
     start_at |-> in.StartAt,
     end_at |-> in.EndAt,
     is_active |-> IF in.IsActive # NilPtr THEN Deref(in.IsActive) ELSE TRUE]

\* a usage row that a transaction locks before its upsert runs
UsageRowLockedEarly(w, cid) ==
    \E v \in Workers \ {w} :
        pc[v] \in {"rec_upsert", "rec_commit"} /\ loc[v].cid = cid

\* a transaction of another worker holds the contract_usage key of `cid`
UsageRowLocked(w, cid) ==
    \E v \in Workers \ {w} : pc[v] = "rec_commit" /\ loc[v].cid = cid

\* Create up to and including INSERT INTO contracts ... RETURNING
CreateBegin(w, C) ==
    /\ Answered
    /\ pc[w] = Idle
    /\ \E r \in C :
         LET p == r.pr
             in == r.in
         IN
         /\ IF ~IsKgu(p)
            THEN /\ Return(w, Resp("Create", p, ErrPermissionDenied, in, <<>>, FALSE))
                 /\ UNCHANGED <<store, clock>>
            ELSE IF ~CreateInputValid(in)
            THEN /\ Return(w, Resp("Create", p, ErrInvalidInput, in, <<>>, FALSE))
                 /\ UNCHANGED <<store, clock>>
            ELSE /\ nextID <= MaxContracts
                 /\ contracts' = With(contracts, nextID, CreateParams(p, in))
                 /\ nextID' = nextID + 1
                 /\ Goto(w, "create_usage",
                         [NoLoc EXCEPT !.pr = p, !.in = in, !.cid = nextID])
                 /\ UNCHANGED <<usage, log, tickets, clock>>

\* the usage row INSERT ... ON CONFLICT (contract_id) DO NOTHING leaves
InitialUsage(u, cid) ==
    IF cid \in DOMAIN u THEN u
    ELSE With(u, cid, [total_volume_m3 |-> 0, total_cost |-> 0])

\* Create from the initial usage row on: the statement runs on its own, so
\* when it fails (storage error, cancelled context) the contract row stays
CreateUsage(w, fail) ==
    /\ Answered
    /\ pc[w] = "create_usage"
    /\ LET l == loc[w] IN
       IF fail \/ ~ContractExists(l.cid)
       THEN /\ Return(w, Resp("Create", l.pr, ErrInternal, l.in, <<>>, FALSE))
            /\ UNCHANGED <<store, clock>>
       ELSE /\ ~UsageRowLocked(w, l.cid)
            /\ usage' = InitialUsage(usage, l.cid)
            /\ Return(w, Resp("Create", l.pr, OK, l.in,
                              <<decorateContract(ScanContract(l.cid), clock)>>,
                              TRUE))
            /\ UNCHANGED <<contracts, log, tickets, nextID, clock>>


\* ----------------------------------------------------- AssignTicketContract
TicketExists(tid) == tid \in DOMAIN tickets

\* a SELECT without FOR UPDATE never waits
NoRowLock(w, tid) == FALSE

\* another worker's transaction holds the row lock SELECT ... FOR UPDATE
\* took on ticket `tid`
TicketRowLocked(w, tid) ==
    \E v \in Workers \ {w} : pc[v] = "bind_update" /\ loc[v].in.TicketID = tid

\* a check that lets an authority bind to the contracts of every organization
AnyOrganization(p, contract) == TRUE

\* contract.CreatedByOrgID == principal.OrganizationID
CreatedByCaller(p, contract) == contract.CreatedByOrgID = p.org

\* the service method up to the repository call: role, GetByID, organization
AssignBegin(w, A) ==
    /\ Answered
    /\ pc[w] = Idle
    /\ \E r \in A :
         LET p == r.pr
             in == r.in
         IN
         /\ UNCHANGED <<store, clock>>
         /\ IF ~IsKgu(p)
            THEN Return(w, Resp("AssignTicketContract", p, ErrPermissionDenied, in,
                                <<>>, FALSE))
            ELSE IF ~ContractExists(in.ContractID)
            THEN Return(w, Resp("AssignTicketContract", p, ErrNotFound, in, <<>>,
                                FALSE))
            ELSE IF ~CreatedByCaller(p, GetByID(in.ContractID, FALSE))
            THEN Return(w, Resp("AssignTicketContract", p, ErrPermissionDenied, in,
                                <<>>, FALSE))
            ELSE Goto(w, "bind_select", [NoLoc EXCEPT !.pr = p, !.in = in])

\* a transaction that updates whatever it read
BlindDecision(existing, contractID) ==
    IF existing = contractID THEN "noop" ELSE "update"

\* a transaction that refuses every ticket that has a contract
StrictDecision(existing, contractID) ==
    IF existing # NilUUID THEN "linked" ELSE "update"

\* what the transaction does with the contract_id it read under the lock
AssignDecision(existing, contractID) ==
    IF existing # NilUUID
    THEN IF existing = contractID THEN "noop" ELSE "linked"
    ELSE "update"

\* BEGIN; SELECT contract_id FROM tickets WHERE id = ? FOR UPDATE.
\* With no such ticket Scan reports no error and leaves existing.ContractID
\* nil, the UPDATE then matches no row, and the transaction commits.
AssignSelect(w) ==
    /\ Answered
    /\ pc[w] = "bind_select"
    /\ UNCHANGED <<store, clock>>
    /\ LET l == loc[w]
           tid == l.in.TicketID
       IN IF ~TicketExists(tid)
          THEN Return(w, Resp("AssignTicketContract", l.pr, OK, l.in, <<>>,
                              FALSE))
          ELSE /\ ~TicketRowLocked(w, tid)
               /\ LET d == AssignDecision(tickets[tid], l.in.ContractID) IN
                  CASE d = "noop" ->
                         Return(w, Resp("AssignTicketContract", l.pr, OK, l.in,
                                        <<>>, FALSE))
                    [] d = "linked" ->
                         Return(w, Resp("AssignTicketContract", l.pr,
                                        ErrConflict, l.in, <<>>, FALSE))
                    [] OTHER -> Goto(w, "bind_update", l)

\* an UPDATE without its WHERE clause
SetEveryTicketContract(t, ticketID, contractID) ==
    [x \in DOMAIN t |-> contractID]

\* the tickets table after UPDATE tickets SET contract_id = ? WHERE id = ?
SetTicketContract(t, ticketID, contractID) ==
    [t EXCEPT ![ticketID] = contractID]

\* an UPDATE that checks no reference
NoReferenceCheck(cid) == TRUE

\* the foreign key of tickets.contract_id: the contract row is there
ReferenceHolds(cid) == ContractExists(cid)

\* UPDATE tickets SET contract_id = ? WHERE id = ?; COMMIT.  The statement
\* fails when the contract row is gone (tickets.contract_id references
\* contracts) or on a storage error, and the transaction rolls back.
AssignUpdate(w, fail) ==
    /\ Answered
    /\ pc[w] = "bind_update"
    /\ LET l == loc[w] IN
       IF fail \/ ~ReferenceHolds(l.in.ContractID)
       THEN /\ Return(w, Resp("AssignTicketContract", l.pr, ErrInternal, l.in,
                              <<>>, FALSE))
            /\ UNCHANGED <<store, clock>>
       ELSE /\ tickets' = SetTicketContract(tickets, l.in.TicketID,
                                             l.in.ContractID)
            /\ Return(w, Resp("AssignTicketContract", l.pr, OK, l.in, <<>>,
                              TRUE))
            /\ UNCHANGED <<contracts, usage, log, nextID, clock>>

\* ----------------------------------------------------------- RecordTripUsage
\* GetContractIDByTicket: Scan leaves contractID at uuid.Nil both when the
\* ticket row is missing and when its contract_id is NULL
GetContractIDByTicket(tid) ==
    IF TicketExists(tid) THEN tickets[tid] ELSE NilUUID

\* the service method up to and including GetContractIDByTicket
RecordBegin(w, R) ==
    /\ Answered
    /\ pc[w] = Idle
    /\ \E r \in R :
         LET p == r.pr
             in == r.in
         IN
         /\ UNCHANGED <<store, clock>>
         /\ IF ~(IsKgu(p) \/ IsAkimat(p))
            THEN Return(w, Resp("RecordTripUsage", p, ErrPermissionDenied, in, <<>>,
                                FALSE))
            ELSE IF in.VolumeM3 <= 0
            THEN Return(w, Resp("RecordTripUsage", p, ErrInvalidInput, in, <<>>,
                                FALSE))
            ELSE IF GetContractIDByTicket(in.TicketID) = NilUUID
            THEN Return(w, Resp("RecordTripUsage", p, ErrInvalidInput, in, <<>>,
                                FALSE))
            ELSE Goto(w, "rec_get",
                      [NoLoc EXCEPT !.pr = p, !.in = in,
                                    !.cid = GetContractIDByTicket(in.TicketID)])

\* GetByID(contractID): the price the cost is computed with
RecordGetContract(w) ==
    /\ Answered
    /\ pc[w] = "rec_get"
    /\ UNCHANGED <<store, clock>>
    /\ LET l == loc[w] IN
       IF ~ContractExists(l.cid)
       THEN Return(w, Resp("RecordTripUsage", l.pr, ErrNotFound, l.in, <<>>,
                           FALSE))
       ELSE Goto(w, "rec_insert",
                 [l EXCEPT !.price = GetByID(l.cid, FALSE).PricePerM3])

\* gorm reports a unique violation as ErrDuplicatedKey when the connection
\* is opened with error translation
TranslateError == TRUE

\* a ledger whose trip_id is no key: no insert ever finds a duplicate
TripNeverRecorded(tripID) == FALSE

\* trip_id is the primary key of trip_usage_log
TripRecorded(tripID) == tripID \in DOMAIN log

\* another worker's open transaction has inserted the same trip_id
TripKeyLocked(w, tripID) ==
    \E v \in Workers \ {w} :
        pc[v] \in {"rec_upsert", "rec_commit"} /\ loc[v].in.TripID = tripID

\* cost := params.VolumeM3 * pricePerM3, a float64 kept exact
TripCost(volumeM3, pricePerM3) == Quotient(volumeM3 * pricePerM3, Resolution)

\* the trip_usage_log row of a request
LogEntry(l) ==
    [ticket_id |-> l.in.TicketID, contract_id |-> l.cid,
     recorded_volume_m3 |-> Numeric2(l.in.VolumeM3),
     recorded_cost |-> NumericQ(TripCost(l.in.VolumeM3, l.price))]

\* CHECK (recorded_volume_m3 > 0), on the value the column stores
VolumeCheck(l) == LogEntry(l).recorded_volume_m3 > 0

\* BEGIN; INSERT INTO trip_usage_log.  A duplicate trip_id is
\* ErrTripUsageDuplicate; a contract row that is gone fails the foreign key
\* and a volume that rounds to zero fails the CHECK
RecordInsertLog(w) ==
    /\ Answered
    /\ pc[w] = "rec_insert"
    /\ UNCHANGED <<store, clock>>
    /\ LET l == loc[w] IN
       IF TripRecorded(l.in.TripID)
       THEN Return(w, Resp("RecordTripUsage", l.pr,
                           IF TranslateError THEN ErrConflict ELSE ErrInternal,
                           l.in, <<>>, FALSE))
       ELSE /\ ~TripKeyLocked(w, l.in.TripID)
            /\ IF ~ContractExists(l.cid) \/ ~VolumeCheck(l)
               THEN Return(w, Resp("RecordTripUsage", l.pr, ErrInternal, l.in,
                                   <<>>, FALSE))
               ELSE Goto(w, "rec_upsert", l)

\* the log table had the ledger insert been committed on its own
KeptLog(l) == With(log, l.in.TripID, LogEntry(l))

\* the log table after the transaction rolled back
RolledBackLog(l) == log

\* INSERT INTO contract_usage ... ON CONFLICT (contract_id) DO UPDATE, which
\* takes the row (or key) lock; on error the transaction rolls back
RecordUpsertUsage(w, fail) ==
    /\ Answered
    /\ pc[w] = "rec_upsert"
    /\ LET l == loc[w] IN
       IF fail
       THEN /\ log' = RolledBackLog(l)
            /\ Return(w, Resp("RecordTripUsage", l.pr, ErrInternal, l.in, <<>>,
                              FALSE))
            /\ UNCHANGED <<contracts, usage, tickets, nextID, clock>>
       ELSE /\ ~UsageRowLocked(w, l.cid)
            /\ Goto(w, "rec_commit", l)
            /\ UNCHANGED <<store, clock>>

\* an upsert that replaces the totals
OverwriteUsage(u, cid, volumeM3, cost) ==
    With(u, cid, [total_volume_m3 |-> volumeM3, total_cost |-> cost])

\* the contract_usage table after the additive upsert
UpsertUsage(u, cid, volumeM3, cost) ==
    IF cid \in DOMAIN u
    THEN [u EXCEPT ![cid] =
             [total_volume_m3 |-> @.total_volume_m3 + volumeM3,
              total_cost |-> @.total_cost + cost]]
    ELSE With(u, cid, [total_volume_m3 |-> volumeM3, total_cost |-> cost])

\* COMMIT: both rows become visible; or the commit fails and neither does
RecordCommit(w, fail) ==
    /\ Answered
    /\ pc[w] = "rec_commit"
    /\ LET l == loc[w] IN
       IF fail
       THEN /\ log' = RolledBackLog(l)
            /\ Return(w, Resp("RecordTripUsage", l.pr, ErrInternal, l.in, <<>>,
                              FALSE))
            /\ UNCHANGED <<contracts, usage, tickets, nextID, clock>>
       ELSE /\ log' = With(log, l.in.TripID, LogEntry(l))
            /\ usage' = UpsertUsage(usage, l.cid,
                                    LogEntry(l).recorded_volume_m3,
                                    LogEntry(l).recorded_cost)
            /\ Return(w, Resp("RecordTripUsage", l.pr, OK, l.in, <<>>, TRUE))
            /\ UNCHANGED <<contracts, tickets, nextID, clock>>


\* -------------------------------------------------------------------- Delete
\* a dependency check that never finds a ticket
NoRelatedTickets(cid) == FALSE

\* HasRelatedTickets: some ticket row references the contract
HasRelatedTickets(cid) == \E t \in DOMAIN tickets : tickets[t] = cid

\* a pending insert that takes no lock on the row it references
NoContractRowLock(w, cid) == FALSE

\* a transaction of another worker holds a key-share lock on the contract
\* row (it inserted a row that references the contract)
ContractRowLocked(w, cid) ==
    \E v \in Workers \ {w} :
        pc[v] \in {"rec_upsert", "rec_commit"} /\ loc[v].cid = cid

\* the service method up to the dependency check: role, GetByID
DeleteBegin(w, D) ==
    /\ Answered
    /\ pc[w] = Idle
    /\ \E r \in D :
         LET p == r.pr
             in == r.in
         IN
         /\ UNCHANGED <<store, clock>>
         /\ IF ~IsKgu(p)
            THEN Return(w, Resp("Delete", p, ErrPermissionDenied, in, <<>>, FALSE))
            ELSE IF ~ContractExists(in.ContractID)
            THEN Return(w, Resp("Delete", p, ErrNotFound, in, <<>>, FALSE))
            ELSE Goto(w, "del_check", [NoLoc EXCEPT !.pr = p, !.in = in])

\* an unforced delete is refused while a ticket depends on the contract
DeleteCheck(w) ==
    /\ Answered
    /\ pc[w] = "del_check"
    /\ UNCHANGED <<store, clock>>
    /\ LET l == loc[w] IN
       IF ~l.in.Force /\ HasRelatedTickets(l.in.ContractID)
       THEN Return(w, Resp("Delete", l.pr, ErrConflict, l.in, <<>>, FALSE))
       ELSE IF l.in.Force
       THEN Goto(w, "del_tickets", l)
       ELSE Goto(w, "del_row", l)

\* a forced delete that leaves the tickets in place
KeepTickets(t, cid) == t

\* DeleteTicketsByContractID: DELETE FROM tickets WHERE contract_id = ?
DeleteTicketsByContractID(t, cid) ==
    Without(t, {x \in DOMAIN t : t[x] = cid})

DeleteTickets(w, fail) ==
    /\ Answered
    /\ pc[w] = "del_tickets"
    /\ LET l == loc[w] IN
       IF fail
       THEN /\ Return(w, Resp("Delete", l.pr, ErrInternal, l.in, <<>>, FALSE))
            /\ UNCHANGED <<store, clock>>
       ELSE /\ tickets' = DeleteTicketsByContractID(tickets, l.in.ContractID)
            /\ Goto(w, "del_row", l)
            /\ UNCHANGED <<contracts, usage, log, nextID, clock>>

\* trip_usage_log after ON DELETE CASCADE from contracts
CascadeLog(g, cid) ==
    Without(g, {x \in DOMAIN g : g[x].contract_id = cid})

\* ContractRepository.Delete: DELETE FROM contracts WHERE id = ?.  A ticket
\* that still references the contract fails the statement (the foreign key
\* of tickets.contract_id; force deletes the tickets first "to allow
\* contract deletion"); contract_usage and trip_usage_log rows cascade.
DeleteRow(w, fail) ==
    /\ Answered
    /\ pc[w] = "del_row"
    /\ LET l == loc[w]
           cid == l.in.ContractID
       IN IF ~ContractExists(cid)
          THEN /\ Return(w, Resp("Delete", l.pr, ErrNotFound, l.in, <<>>, FALSE))
               /\ UNCHANGED <<store, clock>>
          ELSE IF fail \/ HasRelatedTickets(cid)
          THEN /\ Return(w, Resp("Delete", l.pr, ErrInternal, l.in, <<>>, FALSE))
               /\ UNCHANGED <<store, clock>>
          ELSE /\ ~ContractRowLocked(w, cid)
               /\ contracts' = Without(contracts, {cid})
               /\ usage' = Without(usage, {cid})
               /\ log' = CascadeLog(log, cid)
               /\ Return(w, Resp("Delete", l.pr, OK, l.in, <<>>, TRUE))
               /\ UNCHANGED <<tickets, nextID, clock>>

\* --------------------------------------------------------------------- reads
\* a request without filters, and the requests that set one filter (or the
\* active flag next to a status)
BaseListInput ==
    [ContractorID |-> NilPtr, WorkType |-> NilPtr, OnlyActive |-> FALSE,
     Status |-> NilPtr, StartFrom |-> NilPtr, StartTo |-> NilPtr,
     EndFrom |-> NilPtr, EndTo |-> NilPtr]

ListInputs ==
    {BaseListInput}
    \cup {[BaseListInput EXCEPT !.ContractorID = Ptr(o)] : o \in Orgs}
    \cup {[BaseListInput EXCEPT !.WorkType = Ptr(WorkTypeRoad)],
          [BaseListInput EXCEPT !.OnlyActive = TRUE],
          [BaseListInput EXCEPT !.OnlyActive = TRUE,
                                !.Status = Ptr(ContractUIStatusArchived)],
          [BaseListInput EXCEPT !.StartFrom = Ptr(2)],
          [BaseListInput EXCEPT !.StartTo = Ptr(0)],
          [BaseListInput EXCEPT !.EndFrom = Ptr(3)],
          [BaseListInput EXCEPT !.EndTo = Ptr(1)]}
    \cup {[BaseListInput EXCEPT !.Status = Ptr(st)] :
             st \in {ContractUIStatusPlanned, ContractUIStatusActive,
                     ContractUIStatusExpired, ContractUIStatusArchived}}

\* whether List serves the principal at all
ListAllowed(p) == IsContractor(p) \/ IsKgu(p) \/ IsAkimat(p)

\* a filter that takes the contractor from the request
RequestedContractor(p, in) == in.ContractorID

\* filter.ContractorID: a contractor sees its own contracts, whatever it asks
ScopedContractor(p, in) ==
    IF IsContractor(p) THEN Ptr(p.org) ELSE in.ContractorID

\* the repository filter List builds for a principal it serves
ListFilter(p, in, now) ==
    [OnlyActive |-> in.OnlyActive /\ in.Status = NilPtr,
     IncludeUsage |-> TRUE,
     Status |-> in.Status,
     StartFrom |-> in.StartFrom,
     StartTo |-> in.StartTo,
     EndFrom |-> in.EndFrom,
     EndTo |-> in.EndTo,
     Now |-> now,
     ContractorID |-> ScopedContractor(p, in),
     CreatedByOrg |-> NilPtr,
     WorkType |-> in.WorkType]

\* List: the filter reads the clock once, every decorateContract reads it
\* again; the last `late` rows are decorated one tick later
List(P, I) ==
    /\ Answered
    /\ Quiet
    /\ \E p \in P, in \in I, late \in 0..MaxContracts :
         /\ IF ~ListAllowed(p)
            THEN /\ late = 0
                 /\ Reply(Resp("List", p, ErrPermissionDenied, in, <<>>, FALSE))
                 /\ UNCHANGED <<store, clock, pc, loc>>
            ELSE LET rows == RepoList(ListFilter(p, in, clock))
                     n == Len(rows)
                 IN /\ late \in 0..n
                    /\ late > 0 => clock < MaxTime
                    /\ clock' = IF late > 0 THEN clock + 1 ELSE clock
                    /\ Reply(Resp("List", p, OK, in,
                                  [i \in 1..n |->
                                      decorateContract(rows[i],
                                          IF i > n - late THEN clock + 1
                                          ELSE clock)],
                                  FALSE))
                    /\ UNCHANGED <<store, pc, loc>>

\* an access check that lets every contractor read every contract
ContractorReadsAll(p, contract) ==
    IF IsContractor(p) \/ IsKgu(p) \/ IsAkimat(p) THEN OK
    ELSE ErrPermissionDenied

ensureReadAccess(p, contract) ==
    IF IsContractor(p)
    THEN IF contract.ContractorID # p.org THEN ErrPermissionDenied ELSE OK
    ELSE IF IsKgu(p) \/ IsAkimat(p) THEN OK
    ELSE ErrPermissionDenied

\* what a by-id read returns before its own query: GetByID, ensureReadAccess
ReadByIDError(p, id, includeUsage) ==
    IF ~ContractExists(id) THEN ErrNotFound
    ELSE ensureReadAccess(p, GetByID(id, includeUsage))

\* a get that archives the contract it finds past its end date
ArchiveExpired(t, id, now) ==
    IF id \in DOMAIN t /\ t[id].is_active /\ now > t[id].end_at
    THEN [t EXCEPT ![id].is_active = FALSE]
    ELSE t

\* the contracts table after Get: decorateContract sets the derived fields
\* on the value Get returns, and no statement stores them
StoreAfterGet(t, id, now) == t

Get(P) ==
    /\ Answered
    /\ Quiet
    /\ \E p \in P, id \in ContractIDs \cup {MissingContract} :
         /\ LET err == ReadByIDError(p, id, TRUE) IN
            Reply(Resp("Get", p, err, [ContractID |-> id],
                       IF err = OK
                       THEN <<decorateContract(GetByID(id, TRUE), clock)>>
                       ELSE <<>>,
                       FALSE))
         /\ contracts' = StoreAfterGet(contracts, id, clock)
         /\ UNCHANGED <<usage, log, tickets, nextID, clock, pc, loc>>

RECURSIVE SetToSeq(_)
\* the elements of a finite set in some order
SetToSeq(S) ==
    IF S = {} THEN <<>>
    ELSE LET x == CHOOSE y \in S : TRUE IN <<x>> \o SetToSeq(S \ {x})

\* ContractRepository.ListContractTickets: the tickets of the contract
\* (their order, by planned_start_at, is the ticket service's data)
RepoListContractTickets(cid) ==
    SetToSeq({t \in DOMAIN tickets : tickets[t] = cid})

ListContractTickets(P) ==
    /\ Answered
    /\ Quiet
    /\ \E p \in P, id \in ContractIDs \cup {MissingContract} :
         /\ LET err == ReadByIDError(p, id, FALSE) IN
            Reply(Resp("ListContractTickets", p, err, [ContractID |-> id],
                       IF err = OK THEN RepoListContractTickets(id) ELSE <<>>,
                       FALSE))
         /\ UNCHANGED <<store, clock, pc, loc>>

\* the trips table of the trip service: each trip row names its ticket
\* (set to NULL when the ticket row is deleted)
TripTicket == [tr \in TripIDs |-> IF tr = "tr1" THEN "t1" ELSE "t2"]

\* ContractRepository.ListContractTrips: trips JOIN tickets on the contract
RepoListContractTrips(cid) ==
    SetToSeq({tr \in TripIDs :
                 /\ TripTicket[tr] \in DOMAIN tickets
                 /\ tickets[TripTicket[tr]] = cid})

ListContractTrips(P) ==
    /\ Answered
    /\ Quiet
    /\ \E p \in P, id \in ContractIDs \cup {MissingContract} :
         /\ LET err == ReadByIDError(p, id, FALSE) IN
            Reply(Resp("ListContractTrips", p, err, [ContractID |-> id],
                       IF err = OK THEN RepoListContractTrips(id) ELSE <<>>,
                       FALSE))
         /\ UNCHANGED <<store, clock, pc, loc>>

\* GetDeletionInfo: the dependency counts GetDependencies returns
GetDependencies(cid) ==
    [TicketsCount |-> Cardinality({t \in DOMAIN tickets : tickets[t] = cid}),
     UsageLogCount |->
         Cardinality({x \in DOMAIN log : log[x].contract_id = cid})]

GetDeletionInfo(P) ==
    /\ Answered
    /\ Quiet
    /\ \E p \in P, id \in ContractIDs \cup {MissingContract} :
         /\ LET err == IF ~IsKgu(p) THEN ErrPermissionDenied
                       ELSE IF ~ContractExists(id) THEN ErrNotFound
                       ELSE OK
            IN Reply(Resp("GetDeletionInfo", p, err, [ContractID |-> id],
                          IF err = OK THEN <<GetDependencies(id)>> ELSE <<>>,
                          FALSE))
         /\ UNCHANGED <<store, clock, pc, loc>>

\* ------------------------------------------------------------ specifications
\* the handler writes the result of the finished call to the client
Respond ==
    /\ resp # NoResp
    /\ resp' = NoResp
    /\ UNCHANGED <<store, clock, pc, loc>>

\* one statement of a request that writes, by worker w, with the request
\* drawn from C (create), A (assign), R (record), D (delete)
WriteStep(w, C, A, R, D) ==
    \/ CreateBegin(w, C)
    \/ \E fail \in BOOLEAN : CreateUsage(w, fail)
    \/ AssignBegin(w, A)
    \/ AssignSelect(w)
    \/ \E fail \in BOOLEAN : AssignUpdate(w, fail)
    \/ RecordBegin(w, R)
    \/ RecordGetContract(w)
    \/ RecordInsertLog(w)
    \/ \E fail \in BOOLEAN : RecordUpsertUsage(w, fail)
    \/ \E fail \in BOOLEAN : RecordCommit(w, fail)
    \/ DeleteBegin(w, D)
    \/ DeleteCheck(w)
    \/ \E fail \in BOOLEAN : DeleteTickets(w, fail)
    \/ \E fail \in BOOLEAN : DeleteRow(w, fail)

\* a request that only reads
ReadStep ==
    \/ List(Principals, ListInputs)
    \/ Get(Principals)
    \/ ListContractTickets(Principals)
    \/ ListContractTrips(Principals)
    \/ GetDeletionInfo(Principals)

\* the write path under concurrency: requests of all workers, interleaved
\* statement by statement; a finished call is answered before the next
\* statement runs
Next ==
    \/ \E w \in Workers :
           WriteStep(w, WriterCreateRequests, WriterAssignRequests,
                     WriterRecordRequests, WriterDeleteRequests)
    \/ Respond

Spec == Init /\ [][Next]_vars

\* every request of every principal, served one at a time, time passing
NextRead ==
    \/ WriteStep("w1", CreateRequests, AssignRequests, RecordRequests,
                 DeleteRequests)
    \/ ReadStep
    \/ Tick
    \/ Respond

SpecRead == Init /\ [][NextRead]_vars


\* ------------------------------------------------------------------ ledger
\* the worker whose request takes the step
Steps(w) == pc'[w] # pc[w]

\* the totals of contract c, zero when it has no usage row
TotalVolume(c) == IF c \in DOMAIN usage THEN usage[c].total_volume_m3 ELSE 0
TotalCost(c) == IF c \in DOMAIN usage THEN usage[c].total_cost ELSE 0

\* the ledger entries of contract c
EntriesOf(c) == {t \in DOMAIN log : log[t].contract_id = c}
LedgerVolume(c) ==
    SumOver(EntriesOf(c), [t \in EntriesOf(c) |-> log[t].recorded_volume_m3])
LedgerCost(c) ==
    SumOver(EntriesOf(c), [t \in EntriesOf(c) |-> log[t].recorded_cost])

\* every contract id the store can hold, and the one it never holds
AllContracts == ContractIDs \cup {MissingContract}

\* C1: a recordTripUsage call that reaches the ledger insert with a trip
\* identity that already has a ledger entry returns Conflict and leaves the
\* ledger and every usage total unchanged; a call that succeeds found no
\* entry for its trip, writes exactly that entry and adds its volume and
\* cost once.
RecordOnceStep ==
    /\ \A w \in Workers :
          (/\ pc[w] = "rec_insert"
           /\ loc[w].in.TripID \in DOMAIN log
           /\ Steps(w))
          => /\ resp'.op = "RecordTripUsage"
             /\ resp'.err = ErrConflict
             /\ log' = log
             /\ usage' = usage
    /\ (resp = NoResp /\ resp'.op = "RecordTripUsage" /\ resp'.err = OK)
          => LET trip == resp'.in.TripID IN
             /\ trip \notin DOMAIN log
             /\ DOMAIN log' = DOMAIN log \cup {trip}
             /\ \A t \in DOMAIN log : log'[t] = log[t]
             /\ log'[trip].recorded_volume_m3 = resp'.in.VolumeM3
             /\ LET c == log'[trip].contract_id IN
                /\ usage'[c].total_volume_m3 =
                       TotalVolume(c) + resp'.in.VolumeM3
                /\ usage'[c].total_cost =
                       TotalCost(c) + log'[trip].recorded_cost

UsageMatchesLedger ==
    \A c \in AllContracts :
        /\ TotalVolume(c) = LedgerVolume(c)
        /\ TotalCost(c) = LedgerCost(c)

\* a recordTripUsage failed inside its transaction, for a contract that
\* exists and has usage recorded
RecordFailedMidway ==
    /\ resp.op = "RecordTripUsage"
    /\ resp.err = ErrInternal
    /\ resp.in.TripID \notin DOMAIN log
    /\ resp.in.TicketID \in DOMAIN tickets
    /\ tickets[resp.in.TicketID] \in DOMAIN contracts
    /\ TotalVolume(tickets[resp.in.TicketID]) > 0

\* C3: records with distinct trip identities against one contract all take
\* effect, in every interleaving: the accumulated volume is the sum of the
\* recorded volumes, the accumulated cost is the unit price times that sum,
\* a commit adds its volume and volume x price to the totals it finds, and
\* a request whose trip has no ledger entry is never refused as a duplicate.
UsageIsAdditive ==
    \A c \in DOMAIN contracts :
        /\ TotalVolume(c) = LedgerVolume(c)
        /\ TotalCost(c) * Resolution =
               contracts[c].price_per_m3 * LedgerVolume(c)

AdditiveStep ==
    \A w \in Workers :
        /\ (pc[w] = "rec_commit" /\ Steps(w) /\ resp'.err = OK)
              => /\ loc[w].cid \in DOMAIN contracts
                 /\ usage'[loc[w].cid].total_volume_m3 =
                        TotalVolume(loc[w].cid) + loc[w].in.VolumeM3
                 /\ (usage'[loc[w].cid].total_cost - TotalCost(loc[w].cid))
                        * Resolution =
                        loc[w].in.VolumeM3
                        * contracts[loc[w].cid].price_per_m3
                 /\ \A c \in DOMAIN usage \ {loc[w].cid} :
                        usage'[c] = usage[c]
        /\ (pc[w] = "rec_insert" /\ Steps(w)
            /\ loc[w].in.TripID \notin DOMAIN log)
              => resp'.err # ErrConflict

NoAdditionLost == []UsageIsAdditive /\ [][AdditiveStep]_vars

\* two trips of volumes 1 and 2 are on the ledger of one contract, the
\* second committed while the request of the other worker was under way
TwoTripsAdded ==
    \E c \in DOMAIN contracts :
        /\ Cardinality(EntriesOf(c)) = 2
        /\ TotalVolume(c) = Whole(3)
        /\ TotalCost(c) * Resolution = Whole(3) * contracts[c].price_per_m3
        /\ resp.op = "RecordTripUsage"
        /\ resp.err = OK
        /\ \E w \in Workers : pc[w] \in {"rec_get", "rec_insert"}
                              /\ loc[w].cid = c

\* ------------------------------------------------------------------ binding
\* C4: once a ticket references a contract, no step changes the reference
\* to another contract or to null while the ticket row exists.
BindingKept ==
    \A t \in DOMAIN tickets :
        (tickets[t] # NilUUID /\ t \in DOMAIN tickets')
            => tickets'[t] = tickets[t]

BindingNeverChanges == [][BindingKept]_vars

\* a delete of the contract a ticket references has been refused and the
\* ticket is still bound, while the other contract exists too
BoundTicketSurvives ==
    /\ resp.op = "Delete"
    /\ resp.err \in {ErrConflict, ErrInternal}
    /\ \E t \in DOMAIN tickets : tickets[t] = resp.in.ContractID
    /\ Cardinality(DOMAIN contracts) = 2

\* C5: a bind of an existing ticket that already references the requested
\* contract succeeds and changes nothing; a bind of a ticket that references
\* another contract fails with Conflict and the ticket keeps its contract; a
\* bind of an unbound ticket that succeeds sets the reference.
RebindStep ==
    \A w \in Workers :
        LET tid == loc[w].in.TicketID
            cid == loc[w].in.ContractID
        IN /\ (pc[w] = "bind_select" /\ Steps(w) /\ tid \in DOMAIN tickets)
                => /\ tickets[tid] = cid
                        => /\ resp'.err = OK
                           /\ resp'.wrote = FALSE
                           /\ UNCHANGED store
                   /\ tickets[tid] \notin {NilUUID, cid}
                        => /\ resp'.err = ErrConflict
                           /\ UNCHANGED store
                   /\ tickets[tid] = NilUUID => pc'[w] = "bind_update"
           /\ (pc[w] = "bind_update" /\ Steps(w) /\ resp'.err = OK)
                => /\ tid \in DOMAIN tickets'
                   /\ tickets'[tid] = cid

RebindIsNoOpOrConflict == [][RebindStep]_vars

\* the second bind of a ticket to the contract it references has returned
\* success without writing
ReboundToSame ==
    /\ resp.op = "AssignTicketContract"
    /\ resp.err = OK
    /\ ~resp.wrote
    /\ resp.in.TicketID \in DOMAIN tickets
    /\ tickets[resp.in.TicketID] = resp.in.ContractID

\* C6: of the binds of one existing ticket to different contracts, in every
\* interleaving, the one that returns success found the ticket unbound (or
\* bound to its own contract) and leaves it bound to its own contract, and
\* every one that finds it bound to another contract fails with Conflict and
\* changes nothing: two binds to different contracts never both succeed.
BindRaceStep ==
    \A w \in Workers :
        LET tid == loc[w].in.TicketID
            cid == loc[w].in.ContractID
        IN (/\ pc[w] \in {"bind_select", "bind_update"}
            /\ pc'[w] = Idle
            /\ tid \in DOMAIN tickets)
           => /\ resp'.err = OK
                   => /\ tickets[tid] \in {NilUUID, cid}
                      /\ tid \in DOMAIN tickets'
                      /\ tickets'[tid] = cid
              /\ tickets[tid] \notin {NilUUID, cid}
                   => /\ resp'.err = ErrConflict
                      /\ tickets' = tickets

OneBindWins == [][BindRaceStep]_vars

\* the race is on: one bind has read the ticket as unbound under the row
\* lock and not yet written, the other bind, of the same ticket to another
\* contract, is at its locked read
BindRaceOn ==
    \E w \in Workers, v \in Workers :
        /\ pc[w] = "bind_update"
        /\ pc[v] = "bind_select"
        /\ loc[v].in.TicketID = loc[w].in.TicketID
        /\ loc[v].in.ContractID # loc[w].in.ContractID
        /\ tickets[loc[w].in.TicketID] = NilUUID

\* -------------------------------------------------------------------- reads
\* the contracts a response carries
ContractRows(ops) ==
    IF resp.op \in ops /\ resp.err = OK
    THEN {resp.rows[i] : i \in 1..Len(resp.rows)}
    ELSE {}

\* C7: the status of every contract a call returns follows from its active
\* flag, its dates and the time it was derived at: ARCHIVED when the flag is
\* off, whatever the dates; otherwise PLANNED before start_at, ACTIVE from
\* start_at to end_at, both included, and EXPIRED after end_at.
StatusFollowsDates ==
    \A r \in ContractRows({"List", "Get", "Create"}) :
        LET now == Deref(r.at) IN
        /\ ~r.IsActive => r.UIStatus = ContractUIStatusArchived
        /\ (r.IsActive /\ now < r.StartAt)
              => r.UIStatus = ContractUIStatusPlanned
        /\ (r.IsActive /\ r.StartAt <= now /\ now <= r.EndAt)
              => r.UIStatus = ContractUIStatusActive
        /\ (r.IsActive /\ r.StartAt <= now /\ r.EndAt < now)
              => r.UIStatus = ContractUIStatusExpired

\* a read at the end date returned an active contract as ACTIVE
ActiveAtEndDate ==
    \E r \in ContractRows({"List", "Get"}) :
        /\ r.IsActive
        /\ Deref(r.at) = r.EndAt
        /\ r.UIStatus = ContractUIStatusActive

ContractorSeesOwn ==
    (resp.op = "List" /\ resp.pr.role = UserRoleContractorAdmin)
        => /\ resp.err = OK
           /\ \A i \in 1..Len(resp.rows) :
                  resp.rows[i].ContractorID = resp.pr.org

\* a contractor asked for the contracts of another organization, which has
\* one, and received its own
FilterOverridden ==
    /\ resp.op = "List"
    /\ resp.pr.role = UserRoleContractorAdmin
    /\ resp.in.ContractorID # NilPtr
    /\ Deref(resp.in.ContractorID) # resp.pr.org
    /\ \E c \in DOMAIN contracts :
           contracts[c].contractor_id = Deref(resp.in.ContractorID)
    /\ resp.rows # <<>>

\* C10: every call by a principal whose role is neither contract authority,
\* oversight nor contractor (TOO_ADMIN, DRIVER) returns PermissionDenied,
\* whatever its input.
OutsiderAlwaysDenied ==
    (resp.op # "none"
     /\ resp.pr.role \in {UserRoleTooAdmin, UserRoleDriver})
        => resp.err = ErrPermissionDenied

\* --------------------------------------------------------------- mutation
WriteOps == {"Create", "AssignTicketContract", "Delete", "RecordTripUsage"}

\* the access table: who may create, bind, delete and record usage
Granted(op, p) ==
    IF op = "RecordTripUsage"
    THEN p.role \in {UserRoleKguZkhAdmin, UserRoleAkimatAdmin}
    ELSE p.role = UserRoleKguZkhAdmin

\* the operation a request at statement `at` belongs to
OpAt(at) ==
    CASE at = "create_usage" -> "Create"
      [] at \in {"bind_select", "bind_update"} -> "AssignTicketContract"
      [] at \in {"rec_get", "rec_insert", "rec_upsert", "rec_commit"} ->
             "RecordTripUsage"
      [] at \in {"del_check", "del_tickets", "del_row"} -> "Delete"
      [] OTHER -> "none"

\* C11: create, bind, delete and record usage go through only for a role
\* the access table grants them to: a call by any other role is answered
\* PermissionDenied by a step that leaves contracts, usage, ledger and
\* tickets unchanged, and every step that changes the store belongs to a
\* request of a granted role.
WriteGuardStep ==
    /\ (/\ resp = NoResp
        /\ resp'.op \in WriteOps
        /\ ~Granted(resp'.op, resp'.pr))
          => /\ resp'.err = ErrPermissionDenied
             /\ store' = store
    /\ store' # store
          => \E w \in Workers :
                LET at == IF pc'[w] # Idle THEN pc'[w] ELSE pc[w]
                    p == IF pc'[w] # Idle THEN loc'[w].pr ELSE loc[w].pr
                IN /\ Steps(w)
                   /\ OpAt(at) \in WriteOps
                   /\ Granted(OpAt(at), p)

OnlyGrantedRolesWrite == [][WriteGuardStep]_vars

\* a contractor was refused a record that an authority would have been
\* allowed: positive volume, new trip, ticket bound to an existing contract
ContractorRecordDenied ==
    /\ resp.op = "RecordTripUsage"
    /\ resp.pr.role = UserRoleContractorAdmin
    /\ resp.err = ErrPermissionDenied
    /\ resp.in.VolumeM3 > 0
    /\ resp.in.TripID \notin DOMAIN log
    /\ resp.in.TicketID \in DOMAIN tickets
    /\ tickets[resp.in.TicketID] \in DOMAIN contracts

\* C12: whenever a step sets the contract reference of a ticket, the step
\* is the update of a bind whose caller is a contract authority of the
\* organization that created the contract; a bind to a contract created by
\* another organization is answered PermissionDenied and changes no ticket.
BindOwnStep ==
    /\ \A t \in DOMAIN tickets \cap DOMAIN tickets' :
          tickets'[t] # tickets[t]
             => \E w \in Workers :
                   /\ Steps(w)
                   /\ pc[w] = "bind_update"
                   /\ loc[w].in.TicketID = t
                   /\ loc[w].pr.role = UserRoleKguZkhAdmin
                   /\ tickets'[t] = loc[w].in.ContractID
                   /\ tickets'[t] \in DOMAIN contracts
                   /\ contracts[tickets'[t]].created_by_org = loc[w].pr.org
    /\ (/\ resp = NoResp
        /\ resp'.op = "AssignTicketContract"
        /\ resp'.in.ContractID \in DOMAIN contracts
        /\ contracts[resp'.in.ContractID].created_by_org # resp'.pr.org)
          => /\ resp'.err = ErrPermissionDenied
             /\ tickets' = tickets

BindOnlyToOwnContract == [][BindOwnStep]_vars

\* a contract authority was refused the bind of an unbound ticket to a
\* contract that another organization created
ForeignBindDenied ==
    /\ resp.op = "AssignTicketContract"
    /\ resp.pr.role = UserRoleKguZkhAdmin
    /\ resp.err = ErrPermissionDenied
    /\ resp.in.ContractID \in DOMAIN contracts
    /\ contracts[resp.in.ContractID].created_by_org # resp.pr.org
    /\ resp.in.TicketID \in DOMAIN tickets
    /\ tickets[resp.in.TicketID] = NilUUID

\* C13: every stored contract has end_at > start_at, price_per_m3 > 0,
\* budget_total > 0 and minimal_volume_m3 > 0.
StoredContractsValid ==
    \A c \in DOMAIN contracts :
        /\ contracts[c].end_at > contracts[c].start_at
        /\ contracts[c].price_per_m3 > 0
        /\ contracts[c].budget_total > 0
        /\ contracts[c].minimal_volume_m3 > 0

\* C14: every contract whose create call is over, whether it succeeded or
\* failed, has its usage row.
CreatedWithUsage ==
    \A c \in DOMAIN contracts :
        (\A w \in Workers : ~(pc[w] = "create_usage" /\ loc[w].cid = c))
           => c \in DOMAIN usage

\* the tickets that reference contract c
TicketsOf(c) == {t \in DOMAIN tickets : tickets[t] = c}

\* C15: a delete of an existing contract by a contract authority that is
\* not forced is refused with Conflict, removing nothing, exactly when a
\* ticket references the contract; a delete that is forced, or finds no
\* such ticket, is never refused, and when it succeeds the contract, its
\* usage row and the tickets that referenced it are gone, and no ticket
\* that referenced another contract is.
DeleteStep ==
    /\ \A w \in Workers :
          (pc[w] = "del_check" /\ Steps(w))
             => LET in == loc[w].in IN
                IF ~in.Force /\ TicketsOf(in.ContractID) # {}
                THEN /\ resp'.op = "Delete"
                     /\ resp'.err = ErrConflict
                     /\ store' = store
                ELSE /\ resp' = NoResp
                     /\ pc'[w] \in {"del_tickets", "del_row"}
    /\ \A w \in Workers :
          (pc[w] \in {"del_tickets", "del_row"} /\ Steps(w))
             => resp'.err \in {"none", OK, ErrInternal, ErrNotFound}
    /\ (resp = NoResp /\ resp'.op = "Delete" /\ resp'.err = OK)
          => LET c == resp'.in.ContractID IN
             /\ c \in DOMAIN contracts
             /\ c \notin DOMAIN contracts'
             /\ c \notin DOMAIN usage'
             /\ \A t \in DOMAIN tickets' : tickets'[t] # c
             /\ \A t \in DOMAIN tickets \ TicketsOf(c) :
                   t \in DOMAIN tickets' /\ tickets'[t] = tickets[t]
             /\ ~resp'.in.Force => tickets' = tickets

UnknownTicketNotFound ==
    (/\ resp.op = "RecordTripUsage"
     /\ Granted("RecordTripUsage", resp.pr)
     /\ resp.in.VolumeM3 > 0
     /\ resp.in.TicketID \notin DOMAIN tickets)
       => resp.err = ErrNotFound

\* C17: a bind by a contract authority to a contract its organization
\* created, naming a ticket that does not exist, is answered NotFound.
MissingTicketBindNotFound ==
    (/\ resp.op = "AssignTicketContract"
     /\ resp.pr.role = UserRoleKguZkhAdmin
     /\ resp.in.ContractID \in DOMAIN contracts
     /\ contracts[resp.in.ContractID].created_by_org = resp.pr.org
     /\ resp.in.TicketID \notin DOMAIN tickets)
       => resp.err = ErrNotFound

\* the totals of contract c after the step
TotalVolumeNext(c) == IF c \in DOMAIN usage' THEN usage'[c].total_volume_m3 ELSE 0
TotalCostNext(c) == IF c \in DOMAIN usage' THEN usage'[c].total_cost ELSE 0

\* C18 as stated: for a contract that exists before and after a step, every
\* change of its totals adds a positive volume and a positive cost.
UsageGrowsStrictlyStep ==
    \A c \in DOMAIN contracts \cap DOMAIN contracts' :
        (TotalVolumeNext(c) # TotalVolume(c) \/ TotalCostNext(c) # TotalCost(c))
           => /\ TotalVolumeNext(c) > TotalVolume(c)
              /\ TotalCostNext(c) > TotalCost(c)

UsageGrowsStrictly == [][UsageGrowsStrictlyStep]_vars

\* what does hold of the totals (C18 without the positive cost): for a
\* contract that exists before and after a step, the usage row is never
\* removed and the totals never decrease; every change of
\* the totals is the commit of a record against the contract, which adds
\* the volume and the cost of its ledger entry to the previous totals: a
\* positive volume and a cost that is not negative.
UsageOnlyGrowsStep ==
    \A c \in DOMAIN contracts \cap DOMAIN contracts' :
        /\ c \in DOMAIN usage => c \in DOMAIN usage'
        /\ TotalVolumeNext(c) >= TotalVolume(c)
        /\ TotalCostNext(c) >= TotalCost(c)
        /\ (TotalVolumeNext(c) # TotalVolume(c) \/ TotalCostNext(c) # TotalCost(c))
              => \E w \in Workers :
                    LET trip == loc[w].in.TripID IN
                    /\ pc[w] = "rec_commit"
                    /\ Steps(w)
                    /\ loc[w].cid = c
                    /\ trip \notin DOMAIN log
                    /\ trip \in DOMAIN log'
                    /\ log'[trip].recorded_volume_m3 > 0
                    /\ log'[trip].recorded_cost >= 0
                    /\ TotalVolumeNext(c) =
                           TotalVolume(c) + log'[trip].recorded_volume_m3
                    /\ TotalCostNext(c) =
                           TotalCost(c) + log'[trip].recorded_cost

UsageOnlyGrows == [][UsageOnlyGrowsStep]_vars

\* two trips are recorded against a contract whose stored price is zero:
\* the volume has grown twice and the cost not at all
VolumeGrewCostDidNot ==
    \E c \in DOMAIN contracts :
        /\ contracts[c].price_per_m3 = 0
        /\ Cardinality(EntriesOf(c)) = 2
        /\ TotalVolume(c) > 0
        /\ TotalCost(c) = 0
        /\ resp.op = "RecordTripUsage"
        /\ resp.err = OK

\* C19: the ledger is append-only: an entry, once written, stays and keeps
\* every field through every later step.
LedgerKeptStep ==
    \A t \in DOMAIN log : t \in DOMAIN log' /\ log'[t] = log[t]

LedgerAppendOnly == [][LedgerKeptStep]_vars

\* C20: a contract row that exists before and after a step has the same
\* attributes; a step of a record leaves contracts and tickets as they are,
\* changes the totals of no contract but its own and adds at most its own
\* ledger entry; a step of a bind leaves contracts, usage and ledger as they
\* are and changes no ticket but the one it names.
FrameStep ==
    /\ \A c \in DOMAIN contracts \cap DOMAIN contracts' :
          contracts'[c] = contracts[c]
    /\ \A w \in Workers :
          LET at == IF pc[w] # Idle THEN pc[w] ELSE pc'[w]
              l == IF pc[w] # Idle THEN loc[w] ELSE loc'[w]
          IN
          /\ (Steps(w) /\ OpAt(at) = "RecordTripUsage")
                => /\ contracts' = contracts
                   /\ tickets' = tickets
                   /\ nextID' = nextID
                   /\ \A c \in DOMAIN usage :
                         c # l.cid
                            => c \in DOMAIN usage' /\ usage'[c] = usage[c]
                   /\ DOMAIN usage' \subseteq DOMAIN usage \cup {l.cid}
                   /\ \A t \in DOMAIN log :
                         t \in DOMAIN log' /\ log'[t] = log[t]
                   /\ DOMAIN log' \subseteq DOMAIN log \cup {l.in.TripID}
          /\ (Steps(w) /\ OpAt(at) = "AssignTicketContract")
                => /\ contracts' = contracts
                   /\ usage' = usage
                   /\ log' = log
                   /\ nextID' = nextID
                   /\ DOMAIN tickets' = DOMAIN tickets
                   /\ \A t \in DOMAIN tickets :
                         t # l.in.TicketID => tickets'[t] = tickets[t]

ContractsAreImmutable == [][FrameStep]_vars

\* a bind has set the reference of one ticket while the other ticket and
\* a contract with recorded usage are in the store
BoundBesideOthers ==
    /\ resp.op = "AssignTicketContract"
    /\ resp.err = OK
    /\ resp.wrote
    /\ \E t \in DOMAIN tickets :
          /\ t # resp.in.TicketID
          /\ tickets[t] # NilUUID
          /\ tickets[t] # resp.in.ContractID
    /\ log # EmptyTable

\* ------------------------------------------------------------ reads by id
ByIDReads == {"Get", "ListContractTickets", "ListContractTrips"}

\* C21: a read by id (get, the tickets of a contract, the trips of a
\* contract) by a contractor is answered NotFound exactly when no contract
\* has the id, PermissionDenied exactly when the contract exists and names
\* another organization as its contractor, and with the result otherwise
\* (for get: the contract asked for); a contract authority or oversight
\* caller is never answered PermissionDenied, and NotFound exactly when no
\* contract has the id.
ReadErrorsDistinct ==
    resp.op \in ByIDReads
       => LET id == resp.in.ContractID
              exists == id \in DOMAIN contracts
          IN
          /\ resp.pr.role = UserRoleContractorAdmin
                => /\ (resp.err = ErrNotFound) <=> ~exists
                   /\ (resp.err = ErrPermissionDenied)
                         <=> (exists /\ contracts[id].contractor_id # resp.pr.org)
                   /\ resp.err \in {OK, ErrNotFound, ErrPermissionDenied}
          /\ resp.pr.role \in {UserRoleKguZkhAdmin, UserRoleAkimatAdmin}
                => /\ resp.err # ErrPermissionDenied
                   /\ (resp.err = ErrNotFound) <=> ~exists
                   /\ resp.err \in {OK, ErrNotFound}
          /\ (resp.op = "Get" /\ resp.err = OK)
                => /\ Len(resp.rows) = 1
                   /\ resp.rows[1].ID = id

\* a contractor asked for the trips of a contract of another contractor and
\* was refused, and the same contractor can read the other contract
ContractorReadDenied ==
    /\ resp.op = "ListContractTrips"
    /\ resp.pr.role = UserRoleContractorAdmin
    /\ resp.err = ErrPermissionDenied
    /\ resp.in.ContractID \in DOMAIN contracts
    /\ contracts[resp.in.ContractID].contractor_id # resp.pr.org
    /\ \E c \in DOMAIN contracts : contracts[c].contractor_id = resp.pr.org

\* ------------------------------------------------------------------ delete
\* contract c has no usage history: no ledger entry, nothing accumulated
NoUsageHistory(c) ==
    /\ EntriesOf(c) = {}
    /\ TotalVolume(c) = 0
    /\ TotalCost(c) = 0

NoHistoryDeleteState ==
    \A w \in Workers :
        pc[w] = "del_row"
           => /\ loc[w].in.ContractID \in DOMAIN contracts
              /\ TicketsOf(loc[w].in.ContractID) = {}

NoHistoryDeleteStep ==
    \A w \in Workers :
        LET in == loc[w].in IN
        /\ (/\ pc[w] = "del_check"
            /\ Steps(w)
            /\ NoUsageHistory(in.ContractID))
              => IF ~in.Force /\ TicketsOf(in.ContractID) # {}
                 THEN resp'.op = "Delete" /\ resp'.err = ErrConflict
                 ELSE resp' = NoResp
        /\ (/\ pc[w] \in {"del_tickets", "del_row"}
            /\ Steps(w)
            /\ NoUsageHistory(in.ContractID))
              => /\ resp'.err \in {"none", OK, ErrInternal}
                 /\ resp'.err = OK => in.ContractID \notin DOMAIN contracts'
        /\ (pc[w] = "del_check" /\ Steps(w))
              => (resp'.err = ErrConflict
                     <=> (~in.Force /\ TicketsOf(in.ContractID) # {}))

ReadOps ==
    {"List", "Get", "GetDeletionInfo", "ListContractTickets",
     "ListContractTrips"}

\* C23: a step that answers list, get, the deletion impact, the tickets of
\* a contract or the trips of a contract, with a result or with an error,
\* leaves contracts, usage rows, ledger entries and tickets as they were and
\* starts no request that writes: nothing a read derives is stored.
ReadFrameStep ==
    (resp = NoResp /\ resp'.op \in ReadOps)
       => /\ contracts' = contracts
          /\ usage' = usage
          /\ log' = log
          /\ tickets' = tickets
          /\ nextID' = nextID
          /\ pc' = pc

ReadsLeaveStore == [][ReadFrameStep]_vars

\* a get returned a contract as EXPIRED with a result, and the stored row
\* still has its active flag and its usage
ExpiredReadNotArchived ==
    /\ resp.op = "Get"
    /\ resp.err = OK
    /\ resp.rows[1].UIStatus = ContractUIStatusExpired
    /\ resp.rows[1].Result = ContractResultFail
    /\ contracts[resp.in.ContractID].is_active
    /\ TotalVolume(resp.in.ContractID) > 0

\* -------------------------------------------------------------- termination
\* the next statement of the request worker w is serving, when the storage
\* does not fail it
Proceed(w) ==
    \/ CreateUsage(w, FALSE)
    \/ AssignSelect(w)
    \/ AssignUpdate(w, FALSE)
    \/ RecordGetContract(w)
    \/ RecordInsertLog(w)
    \/ RecordUpsertUsage(w, FALSE)
    \/ RecordCommit(w, FALSE)
    \/ DeleteCheck(w)
    \/ DeleteTickets(w, FALSE)
    \/ DeleteRow(w, FALSE)

\* the write path under fair scheduling: the handler answers every finished
\* call, and a request whose next statement is not waiting for a lock, or
\* whose lock is released again and again, runs that statement (a runnable
\* goroutine is scheduled; a lock is granted to the one that waits for it).
\* Nothing is assumed of the steps in which the storage fails or the
\* context is cancelled: they may happen, and no call relies on them.
SpecFair ==
    /\ Init
    /\ [][Next]_vars
    /\ WF_vars(Respond)
    /\ \A w \in Workers : SF_vars(Proceed(w))

\* C24: under fair scheduling every bind, record and delete that has been
\* started returns, in every interleaving with the calls of the other
\* worker on the same ticket, trip and contract: no wait for the ticket row
\* lock, the trip key, the usage row or the contract row lasts forever.
CallsReturn ==
    \A w \in Workers :
        (OpAt(pc[w]) \in {"AssignTicketContract", "RecordTripUsage", "Delete"})
            ~> (pc[w] = Idle)

\* a record waits for the usage row that the record of the other worker,
\* against the same contract, has locked
WaitsForUsageRow ==
    \E w \in Workers, v \in Workers :
        /\ pc[w] = "rec_upsert"
        /\ pc[v] = "rec_commit"
        /\ loc[w].cid = loc[v].cid
        /\ ~ENABLED Proceed(w)

\* -------------------------------------------------------------- references
\* C25: in every state every usage row and every ledger entry belongs to a
\* contract that exists: the delete of a contract takes its usage row and
\* its ledger entries with it, and a record that resolved the contract of
\* its ticket before the contract was deleted commits nothing for it.
UsageRefersToContract ==
    /\ DOMAIN usage \subseteq DOMAIN contracts
    /\ \A t \in DOMAIN log : log[t].contract_id \in DOMAIN contracts

\* a record found the contract of its ticket, the contract was deleted
\* before the record read its price, and the record was answered NotFound
RecordOutlivedContract ==
    /\ resp.op = "RecordTripUsage"
    /\ resp.err = ErrNotFound
    /\ nextID > 1
    /\ 1 \notin DOMAIN contracts
    /\ 1 \notin DOMAIN usage

FilteredStatusShown ==
    (resp.op = "List" /\ resp.err = OK /\ resp.in.Status # NilPtr)
       => \A i \in 1..Len(resp.rows) :
             resp.rows[i].UIStatus = Deref(resp.in.Status)

\* a list filtered for ACTIVE returned a contract as EXPIRED: the filter
\* read the clock at the end date, the decoration after it
FilteredActiveShownExpired ==
    /\ resp.op = "List"
    /\ resp.err = OK
    /\ resp.in.Status = Ptr(ContractUIStatusActive)
    /\ \E i \in 1..Len(resp.rows) :
          /\ resp.rows[i].UIStatus = ContractUIStatusExpired
          /\ Deref(resp.rows[i].at) = resp.rows[i].EndAt + 1

\* -------------------------------------------------------- record and budget
\* a request under way: the caller may record, the trip has no ledger
\* entry and the contract of the ticket is in the store
RecordDue(l) ==
    /\ Granted("RecordTripUsage", l.pr)
    /\ l.in.TripID \notin DOMAIN log
    /\ l.cid \in DOMAIN contracts

\* a record of volume `v` passes from statement to statement, whatever the
\* dates, the active flag, the budget and the totals of its contract: the
\* service does not refuse it, nor does the ledger insert
RecordPasses(OfVolume(_)) ==
    /\ (/\ resp = NoResp
        /\ resp'.op = "RecordTripUsage"
        /\ \A w \in Workers : pc[w] = Idle)
          => ~(/\ Granted("RecordTripUsage", resp'.pr)
               /\ OfVolume(resp'.in.VolumeM3)
               /\ resp'.in.TicketID \in DOMAIN tickets
               /\ tickets[resp'.in.TicketID] \in DOMAIN contracts)
    /\ \A w \in Workers :
          (/\ pc[w] \in {"rec_get", "rec_insert"}
           /\ Steps(w)
           /\ RecordDue(loc[w])
           /\ OfVolume(loc[w].in.VolumeM3))
             => resp' = NoResp
    /\ \A w \in Workers :
          (/\ pc[w] \in {"rec_upsert", "rec_commit"}
           /\ Steps(w)
           /\ RecordDue(loc[w]))
             => resp'.err \in {"none", OK, ErrInternal}

\* the payable amount of every contract a call returns is within its budget
PayableWithinBudget ==
    \A r \in ContractRows({"List", "Get", "Create"}) :
        r.PayableAmount <= r.BudgetTotal

IsPositive(v) == v > 0
StoredPositive(v) == Numeric2(v) > 0

\* C28 as stated: a record by an authorised caller with a positive volume,
\* a trip that has no ledger entry and a ticket bound to an existing
\* contract is never refused (a storage failure inside its transaction
\* apart), whatever the status and the budget of the contract; and no call
\* returns a payable amount above the budget.
RecordAcceptedStep == RecordPasses(IsPositive)

RecordAlwaysAccepted == []PayableWithinBudget /\ [][RecordAcceptedStep]_vars

\* what does hold (C28 for a volume that is positive as the ledger stores
\* it): such a record is never refused, whatever the status and the budget.
RecordOfStoredVolumeStep == RecordPasses(StoredPositive)

RecordIgnoresStatusAndBudget ==
    []PayableWithinBudget /\ [][RecordOfStoredVolumeStep]_vars

\* a record has succeeded against a contract that is past its end date and
\* whose accumulated cost is above its budget
RecordedOverBudget ==
    /\ resp.op = "RecordTripUsage"
    /\ resp.err = OK
    /\ resp.in.TicketID \in DOMAIN tickets
    /\ LET c == tickets[resp.in.TicketID] IN
       /\ c \in DOMAIN contracts
       /\ clock > contracts[c].end_at
       /\ TotalCost(c) > contracts[c].budget_total

\* ---------------------------------------------------------------- lifecycle
\* the status a read of contract c derives at time `now`
StatusAt(c, now) ==
    deriveUIStatus([IsActive |-> contracts[c].is_active,
                    StartAt |-> contracts[c].start_at,
                    EndAt |-> contracts[c].end_at], now)

\* the statuses that may follow status s in later reads
MayFollow(s) ==
    CASE s = ContractUIStatusPlanned ->
           {ContractUIStatusPlanned, ContractUIStatusActive,
            ContractUIStatusExpired}
      [] s = ContractUIStatusActive ->
           {ContractUIStatusActive, ContractUIStatusExpired}
      [] OTHER -> {s}

\* every contract a read returns carries the status derived from the stored
\* row at the time of the read, which is not after the present
ReadsShowStatus ==
    \A r \in ContractRows({"List", "Get"}) :
        /\ r.ID \in DOMAIN contracts
        /\ Deref(r.at) <= clock
        /\ r.UIStatus = StatusAt(r.ID, Deref(r.at))

\* for a stored contract, the status derived at any time is followed at any
\* later time by a status that may follow it
StatusOrdered ==
    \A c \in DOMAIN contracts : \A t1 \in Times : \A t2 \in t1..MaxTime :
        StatusAt(c, t2) \in MayFollow(StatusAt(c, t1))

\* no step turns the clock back or changes what the status of a contract
\* that stays in the store is derived from
StatusForwardStep ==
    /\ clock' >= clock
    /\ \A c \in DOMAIN contracts \cap DOMAIN contracts' :
          /\ contracts'[c].is_active = contracts[c].is_active
          /\ contracts'[c].start_at = contracts[c].start_at
          /\ contracts'[c].end_at = contracts[c].end_at

\* C29: the reads of a stored contract, at times that do not decrease, show
\* statuses that never move backwards: PLANNED is followed only by PLANNED,
\* ACTIVE or EXPIRED, ACTIVE only by ACTIVE or EXPIRED, EXPIRED only by
\* EXPIRED and ARCHIVED only by ARCHIVED.
StatusNeverMovesBack ==
    [](ReadsShowStatus /\ StatusOrdered) /\ [][StatusForwardStep]_vars

\* a get just after the end date shows as EXPIRED a contract that was
\* created before its start date, and has usage
ReadJustExpired ==
    /\ resp.op = "Get"
    /\ resp.err = OK
    /\ resp.rows[1].UIStatus = ContractUIStatusExpired
    /\ Deref(resp.rows[1].at) = resp.rows[1].EndAt + 1
    /\ TotalVolume(resp.in.ContractID) > 0

\* ------------------------------------------------------------------- result
\* a read of contract c at time `now` returns result SUCCESS: the contract
\* is EXPIRED and its accumulated volume has reached the minimal volume
SuccessAt(c, now) ==
    /\ StatusAt(c, now) = ContractUIStatusExpired
    /\ TotalVolume(c) >= contracts[c].minimal_volume_m3

\* every contract a read returns has result SUCCESS exactly when the stored
\* row and usage give it at the time of the read, which is not after the
\* present
ReadsShowResult ==
    \A r \in ContractRows({"List", "Get"}) :
        /\ r.ID \in DOMAIN contracts
        /\ Deref(r.at) <= clock
        /\ (r.Result = ContractResultSuccess) <=> SuccessAt(r.ID, Deref(r.at))

\* SUCCESS at one time is SUCCESS at every later time
SuccessLasts ==
    \A c \in DOMAIN contracts : \A t1 \in Times : \A t2 \in t1..MaxTime :
        SuccessAt(c, t1) => SuccessAt(c, t2)

\* no step turns the clock back, changes the flag, the end date or the
\* minimal volume of a contract that stays in the store, or lowers its
\* accumulated volume
SuccessKeptStep ==
    /\ clock' >= clock
    /\ \A c \in DOMAIN contracts \cap DOMAIN contracts' :
          /\ contracts'[c].is_active = contracts[c].is_active
          /\ contracts'[c].end_at = contracts[c].end_at
          /\ contracts'[c].minimal_volume_m3 = contracts[c].minimal_volume_m3
          /\ TotalVolumeNext(c) >= TotalVolume(c)

=============================================================================
